---------------------------- MODULE Spec2Model ----------------------------
(***************************************************************************)
(* State-machine model of the sunburst chart component (src/sunburst.js):  *)
(* the Kapsule properties and their onChange handlers, _parseData, init,   *)
(* update (data join, zoom tween, enter/exit), the slice and canvas click  *)
(* handlers, the hover handlers, and the frames of the d3 transitions that *)
(* update schedules.                                                       *)
(*                                                                         *)
(* Numbers.  d3's partition lays the tree out in the unit square, so every *)
(* coordinate is a fraction.  Angular coordinates are kept as integers in  *)
(* units of 1/XU and radial ones in units of 1/YU; the tween's             *)
(* intermediate values are rounded down to that resolution.                *)
(*                                                                         *)
(* Time.  Kapsule runs update in a digest shortly after a setter returns;  *)
(* the model takes the page's calls to be further apart than that delay,   *)
(* so a setter's step includes the update it triggers.  A transition that  *)
(* update schedules starts on a later animation frame.                     *)
(***************************************************************************)
EXTENDS Integers, Sequences, FiniteSets, TLC

Null == "null"

(***************************************************************************)
(* Bounds of the model.                                                    *)
(***************************************************************************)
\* animation frames that make up one transition of TRANSITION_DURATION
Frames == 2
\* number of layouts _parseData may build in one run
MaxLayouts == 2
\* number of calls the page makes on the component in one run (mounting it,
\* setting a prop, a pointer event)
MaxCalls == 5
\* the same, in the shorter runs of ShortSpec (which leave room to check
\* longer ones)
MaxShortCalls == 4

\* resolution of angular coordinates: 1 is XU units (a multiple of every
\* root value of the data below, times two for the mid-frame values)
XU == 2 * 2 * 2
\* resolution of radial coordinates: 1 is YU units (a multiple of height+1
\* for the heights 0, 1, 2 of the data below, times two)
YU == 2 * 2 * 3

(***************************************************************************)
(* The raw data the user may supply: two trees of RawNodes.                *)
(*   A{value:0} -> [B{value:1}, C{value:1} -> [D{value:0}], E{value:2}]    *)
(*   P{value:0} -> [Q{value:1}, R{value:1}]                                *)
(* Every node also carries a second child list (kids) and a second weight  *)
(* (count) for the alternative accessors.                                  *)
(***************************************************************************)
RawNodes == {"A", "B", "C", "D", "E", "P", "Q", "R"}
Trees == {"A", "P"}

RawField(n, f) ==
    CASE f = "children" ->
             (CASE n = "A" -> <<"B", "C", "E">>
                [] n = "C" -> <<"D">>
                [] n = "P" -> <<"Q", "R">>
                [] OTHER   -> <<>>)
      [] f = "kids" ->
             (CASE n = "A" -> <<"B", "C">>
                [] n = "P" -> <<"Q">>
                [] OTHER   -> <<>>)
      [] f = "value" ->
             (CASE n \in {"B", "C", "Q", "R"} -> 1
                [] n = "E" -> 2
                [] OTHER   -> 0)
      [] f = "count" ->
             (CASE n = "B" -> 2
                [] n \in {"D", "E", "Q"} -> 1
                [] n = "R" -> 3
                [] OTHER   -> 0)

ChildrenAccessors == {"children", "kids"}
SizeAccessors == {"value", "count"}
\* sort comparators: none, or (a, b) => b.value - a.value
Sorts == {Null, "desc"}
\* minSliceAngle in tenths of a degree: 0, .2 (the default) and 100
MinSliceAngles == {0, 2, 1000}
ClickCallbacks == {Null, "callback"}
\* the nodes the page passes to focusOnNode (a click can focus any node)
FocusTargets == {"C", "D", "E", "Q"}

(***************************************************************************)
(* d3Hierarchy(data, children).sum(size): a node's value is its own size   *)
(* plus the values of its children.                                        *)
(***************************************************************************)
RECURSIVE SumSeq(_)
SumSeq(s) == IF s = <<>> THEN 0 ELSE Head(s) + SumSeq(Tail(s))

RECURSIVE NodeValue(_, _, _)
NodeValue(n, ch, sz) ==
    LET kids == RawField(n, ch)
    IN  RawField(n, sz)
          + SumSeq([i \in 1..Len(kids) |-> NodeValue(kids[i], ch, sz)])

RECURSIVE NodeHeight(_, _)
NodeHeight(n, ch) ==
    LET kids == RawField(n, ch)
        hs   == {NodeHeight(kids[i], ch) : i \in 1..Len(kids)}
    IN  IF kids = <<>> THEN 0
        ELSE 1 + CHOOSE h \in hs : \A g \in hs : g <= h

(***************************************************************************)
(* hierData.sort(compare): every node's children are sorted (stably) by    *)
(* the comparator; without a comparator they keep the insertion order.     *)
(***************************************************************************)
RECURSIVE InsertSorted(_, _, _, _)
InsertSorted(s, n, ch, sz) ==
    IF s = <<>> THEN <<n>>
    ELSE IF NodeValue(Head(s), ch, sz) >= NodeValue(n, ch, sz)
         THEN <<Head(s)>> \o InsertSorted(Tail(s), n, ch, sz)
         ELSE <<n>> \o s

RECURSIVE SortDesc(_, _, _)
SortDesc(s, ch, sz) ==
    IF s = <<>> THEN <<>>
    ELSE InsertSorted(SortDesc(SubSeq(s, 1, Len(s) - 1), ch, sz),
                      s[Len(s)], ch, sz)

OrderedKids(n, ch, sz, srt) ==
    IF srt = Null THEN RawField(n, ch) ELSE SortDesc(RawField(n, ch), ch, sz)

(***************************************************************************)
(* d3Partition().padding(0): the root spans [0,1] x [0,1/(height+1)], the  *)
(* children of a node split its span in proportion to their values         *)
(* (treemapDice), and a node of depth k lies in [k/(height+1),             *)
(* (k+1)/(height+1)].  descendants() lists the nodes breadth-first; the    *)
(* forEach numbers them in that order.                                     *)
(***************************************************************************)
DiceWidth(p, v) ==
    IF p.value = 0 THEN 0 ELSE (v * (p.x1 - p.x0)) \div p.value

ChildNodes(p, gen, ch, sz, srt, n, base) ==
    LET kids == OrderedKids(p.data, ch, sz, srt)
        w(i) == DiceWidth(p, NodeValue(kids[i], ch, sz))
        before(i) == SumSeq([j \in 1..(i - 1) |-> w(j)])
    IN  [i \in 1..Len(kids) |->
            [gen   |-> gen,
             id    |-> base + i - 1,
             data  |-> kids[i],
             value |-> NodeValue(kids[i], ch, sz),
             depth |-> p.depth + 1,
             path  |-> Append(p.path, base + i - 1),
             names |-> Append(p.names, kids[i]),
             x0    |-> p.x0 + before(i),
             x1    |-> p.x0 + before(i) + w(i),
             y0    |-> (YU * (p.depth + 1)) \div n,
             y1    |-> (YU * (p.depth + 2)) \div n]]

RECURSIVE Descendants(_, _, _, _, _, _, _)
Descendants(q, i, gen, ch, sz, srt, n) ==
    IF i > Len(q) THEN q
    ELSE Descendants(q \o ChildNodes(q[i], gen, ch, sz, srt, n, Len(q)),
                     i + 1, gen, ch, sz, srt, n)

RootNode(root, gen, ch, sz, n) ==
    [gen   |-> gen,
     id    |-> 0,
     data  |-> root,
     value |-> NodeValue(root, ch, sz),
     depth |-> 0,
     path  |-> <<0>>,
     names |-> <<root>>,
     x0    |-> 0,
     x1    |-> XU,
     y0    |-> 0,
     y1    |-> YU \div n]

BuildLayout(root, gen, ch, sz, srt) ==
    LET n == NodeHeight(root, ch) + 1
    IN  Descendants(<<RootNode(root, gen, ch, sz, n)>>, 1, gen, ch, sz, srt, n)


(***************************************************************************)
(* The component's state.                                                  *)
(***************************************************************************)
VARIABLES
    data,           \* props: root RawNode or Null
    children,       \* props: children accessor
    size,           \* props: size accessor
    sort,           \* props: sibling comparator or Null
    minSliceAngle,  \* props: tenths of a degree
    focusOnNode,    \* props: RawNode or Null
    onNodeClick,    \* props: callback or Null
    options,        \* props that only affect rendering (width, label, ...)
    initialised,    \* Kapsule: the component is mounted on a DOM node
    layoutData,     \* state.layoutData: the list of LayoutNodes (<<>>: none)
    layoutCount,    \* number of layouts built so far (identity of their nodes)
    dataNode,       \* the __dataNode link of every RawNode (NoNode: none)
    angleDomain,    \* state.angleScale.domain()
    radiusDomain,   \* state.radiusScale.domain()
    slices,         \* the g.slice elements of the canvas, in document order
    zoom,           \* the 'scale' tween of the svg element's transition
    tooltip,        \* the tooltip element
    calls,          \* callbacks invoked by the last pointer event
    callsLeft,      \* number of calls the page can still make in this run
    updated,        \* history: the last step ran update on a layout
    lastFocus       \* history: the node the last call set focusOnNode to

vars == <<data, children, size, sort, minSliceAngle, focusOnNode, onNodeClick,
          options, initialised, layoutData, layoutCount, dataNode,
          angleDomain, radiusDomain, slices, zoom, tooltip, calls, callsLeft,
          updated, lastFocus>>

propVars == <<data, children, size, sort, minSliceAngle, focusOnNode,
              onNodeClick, options>>
layoutVars == <<layoutData, layoutCount, dataNode>>
scaleVars == <<angleDomain, radiusDomain>>

\* the props without an onChange handler, and the values tried for each
RenderOptions == {"width", "height", "label", "color", "showLabels",
                  "tooltipContent"}
OptionValues(o) ==
    CASE o = "width"  -> {"innerWidth"}
      [] o = "height" -> {"innerHeight"}
      [] o = "label"  -> {"name"}
      [] o = "color"  -> {"lightgrey"}
      [] o = "showLabels" -> {"true", "false"}
      [] o = "tooltipContent" -> {"empty"}
DefaultOptions ==
    [o \in RenderOptions |->
        CASE o = "width"  -> "innerWidth"
          [] o = "height" -> "innerHeight"
          [] o = "label"  -> "name"
          [] o = "color"  -> "lightgrey"
          [] o = "showLabels" -> "true"
          [] o = "tooltipContent" -> "empty"]
\* props declared with triggerUpdate: false
NoTriggerUpdate == {"tooltipContent", "onNodeClick"}

\* the value of a __dataNode link that was never set
NoNode == [gen |-> 0, id |-> 0, data |-> Null, value |-> 0, depth |-> 0,
           path |-> <<>>, names |-> <<>>, x0 |-> 0, x1 |-> 0, y0 |-> 0,
           y1 |-> 0]

\* no transition on the svg element.  sched: the target of a scheduled
\* tween; run, k, xd, yd: the running tween, its frame and interpolators;
\* old: the interpolator of the tween the running one interrupted
NoZoom == [sched |-> <<>>, run |-> FALSE, xd |-> <<>>, yd |-> <<>>, k |-> 0,
           old |-> <<>>]

\* Kapsule's constructor: every prop at its default; nothing is mounted,
\* laid out or rendered yet (an absent list or domain is <<>>)
Constructed ==
    /\ data = Null
    /\ children = "children"
    /\ size = "value"
    /\ sort = Null
    /\ minSliceAngle = 2
    /\ focusOnNode = Null
    /\ onNodeClick = Null
    /\ options = DefaultOptions
    /\ initialised = FALSE
    /\ layoutData = <<>>
    /\ layoutCount = 0
    /\ dataNode = [n \in RawNodes |-> NoNode]
    /\ angleDomain = <<>>
    /\ radiusDomain = <<>>
    /\ slices = <<>>
    /\ zoom = NoZoom
    /\ tooltip = [shown |-> FALSE, title |-> <<>>]
    /\ calls = <<>>
    /\ updated = FALSE
    /\ lastFocus = "none"

\* the component after construction, in a run of at most MaxCalls calls
Init ==
    /\ Constructed
    /\ callsLeft = MaxCalls


(***************************************************************************)
(* _parseData: with data present, build a new layout and link every        *)
(* RawNode of it to its LayoutNode; without data, do nothing.              *)
(***************************************************************************)
\* d.data.__dataNode = d for every node d of the new layout
DualLinks(new, links) ==
    [n \in RawNodes |->
        IF \E i \in 1..Len(new) : new[i].data = n
        THEN new[CHOOSE i \in 1..Len(new) : new[i].data = n]
        ELSE links[n]]

ParseData(d, ch, sz, srt) ==
    IF d # Null
    THEN LET new == BuildLayout(d, layoutCount + 1, ch, sz, srt)
         IN  [layout |-> new,
              count  |-> layoutCount + 1,
              links  |-> DualLinks(new, dataNode)]
    ELSE [layout |-> layoutData, count |-> layoutCount, links |-> dataNode]

\* the onChange handler of data, children, size and sort
OnChangeParse(d, ch, sz, srt) ==
    /\ d # Null => layoutCount < MaxLayouts
    /\ LET parsed == ParseData(d, ch, sz, srt)
       IN  /\ layoutData' = parsed.layout
           /\ layoutCount' = parsed.count
           /\ dataNode' = parsed.links

(***************************************************************************)
(* update: the focus window and the visibility filter of the data join.    *)
(***************************************************************************)
\* for comparison: a window as wide as the initial domain of the angle scale
WholeTreeInitial ==
    [gen |-> 0, id |-> 0, x0 |-> 0, x1 |-> 10 * XU, y0 |-> 0, y1 |-> YU]

\* the focus window when nothing is focused: { x0: 0, x1: 1, y0: 0, y1: 1 }
WholeTree == [gen |-> 0, id |-> 0, x0 |-> 0, x1 |-> XU, y0 |-> 0, y1 |-> YU]

\* (state.focusOnNode && state.focusOnNode.__dataNode) || whole tree
FocusWindow(f, links) ==
    IF f # Null /\ links[f].gen # 0
    THEN [gen |-> links[f].gen, id |-> links[f].id,
          x0 |-> links[f].x0, x1 |-> links[f].x1,
          y0 |-> links[f].y0, y1 |-> links[f].y1]
    ELSE WholeTree

\* for comparison: the width test with >= in place of >
LargeEnoughOrEqual(d, f, m) ==
    LET w  == d.x1 - d.x0
        fw == f.x1 - f.x0
    IN  IF fw = 0 THEN w > 0
        ELSE IF fw > 0 THEN w * 3600 >= m * fw
        ELSE w * 3600 <= m * fw

\* (d.x1-d.x0)/(focusD.x1-focusD.x0) > minSliceAngle/360, in floating
\* point: x/0 is Infinity for x > 0 and NaN (greater than nothing) for 0
LargeEnough(d, f, m) ==
    LET w  == d.x1 - d.x0
        fw == f.x1 - f.x0
    IN  IF fw = 0 THEN w > 0
        ELSE IF fw > 0 THEN w * 3600 > m * fw
        ELSE w * 3600 < m * fw

Visible(d, f, m) ==
    /\ d.x1 >= f.x0
    /\ d.x0 <= f.x1
    /\ LargeEnough(d, f, m)

Shown(layout, f, m) == SelectSeq(layout, LAMBDA d : Visible(d, f, m))

Ids(nodes) == {nodes[i].id : i \in 1..Len(nodes)}
ById(nodes, id) == nodes[CHOOSE i \in 1..Len(nodes) : nodes[i].id = id]
SliceIds(dom) == {dom[i].d.id : i \in 1..Len(dom)}

(***************************************************************************)
(* update: the data join keyed by d.id.  Elements whose key is in the new  *)
(* data get the new datum (update selection); the others (exit selection)  *)
(* get a transition that fades them out and removes them at its end; the   *)
(* new data without an element get a new g.slice (enter selection), which  *)
(* selection.append puts before the element of the next datum of the       *)
(* update selection, or last.  No transition is started on the g element   *)
(* of an updated slice, so one that is fading out keeps doing so.          *)
(***************************************************************************)
\* slice.exit().transition(transition).style('opacity', 0).remove()
ExitSlice(s) == [s EXCEPT !.sched = TRUE]

\* the update selection: the element gets the new datum
UpdateSlice(s, d) == [s EXCEPT !.d = d]

Rebind(dom, shown) ==
    [i \in 1..Len(dom) |->
        IF dom[i].d.id \in Ids(shown)
        THEN UpdateSlice(dom[i], ById(shown, dom[i].d.id))
        ELSE ExitSlice(dom[i])]

\* slice.enter().append('g')
NewSlice(d) == [d |-> d, exit |-> 0, sched |-> FALSE]

InsertBefore(dom, s, next) ==
    IF next = {} THEN Append(dom, s)
    ELSE LET pos == CHOOSE i \in 1..Len(dom) : dom[i].d.id \in next
         IN  SubSeq(dom, 1, pos - 1) \o <<s>> \o SubSeq(dom, pos, Len(dom))

RECURSIVE EnterAll(_, _, _, _)
EnterAll(dom, shown, i, upd) ==
    IF i > Len(shown) THEN dom
    ELSE IF shown[i].id \in upd THEN EnterAll(dom, shown, i + 1, upd)
    ELSE LET later == {j \in (i + 1)..Len(shown) : shown[j].id \in upd}
             next  == IF later = {} THEN {}
                      ELSE {shown[CHOOSE j \in later :
                                    \A l \in later : j <= l].id}
         IN  EnterAll(InsertBefore(dom, NewSlice(shown[i]), next),
                      shown, i + 1, upd)

Join(dom, shown) ==
    EnterAll(Rebind(dom, shown), shown, 1, SliceIds(dom) \cap Ids(shown))

\* for comparison: a target whose radial domain starts at the outer radius
ZoomTargetOuter(f) == <<f.x0, f.x1, f.y1>>

\* the 'scale' tween scheduled on the svg element: its target domains
ZoomTarget(f) == <<f.x0, f.x1, f.y0>>

\* update's effect on the canvas and on the svg element's transition; it
\* returns early without a layout, and Kapsule runs it only once mounted
UpdateSlices(init, layout, links, f, m, dom) ==
    IF init /\ layout # <<>>
    THEN Join(dom, Shown(layout, FocusWindow(f, links), m))
    ELSE dom

UpdateZoom(init, layout, links, f, z) ==
    IF init /\ layout # <<>>
    THEN [z EXCEPT !.sched = ZoomTarget(FocusWindow(f, links))]
    ELSE z

\* update, run by Kapsule's digest after a prop was set
Update ==
    /\ slices' = UpdateSlices(initialised', layoutData', dataNode',
                              focusOnNode', minSliceAngle', slices)
    /\ zoom' = UpdateZoom(initialised', layoutData', dataNode',
                          focusOnNode', zoom)

(***************************************************************************)
(* The transitions update schedules, frame by frame.  A transition starts  *)
(* on the first frame after update: the tween reads the scales' domains    *)
(* then, and a running transition of the same element is interrupted.      *)
(* Every frame of a running transition writes the interpolated domains;    *)
(* the last one writes the targets.  An exit transition that ends removes  *)
(* its element unless another transition is scheduled on it.               *)
(***************************************************************************)
\* d3's default easing (cubic in-out) at frame k of Frames, as a fraction
\* of EaseDen
EaseDen == 2 * Frames * Frames * Frames
EaseNum(k) ==
    IF 2 * k <= Frames THEN 8 * k * k * k
    ELSE (2 * k - 2 * Frames) * (2 * k - 2 * Frames) * (2 * k - 2 * Frames)
            + EaseDen

\* d3Interpolate of two numbers at t = num/EaseDen, rounded down
InterpolateNumber(a, b, num) == (a * (EaseDen - num) + b * num) \div EaseDen

\* d3Interpolate of two arrays
Interpolate(ab, k) ==
    [i \in 1..Len(ab[2]) |-> InterpolateNumber(ab[1][i], ab[2][i], EaseNum(k))]

\* for comparison: a tween that starts where the interrupted one started
StartedZoomFromRest(target, aDom, rDom, z) ==
    [sched |-> <<>>, run |-> TRUE, k |-> 0,
     xd |-> <<IF z.run THEN z.xd[1] ELSE aDom, <<target[1], target[2]>>>>,
     yd |-> <<IF z.run THEN z.yd[1] ELSE rDom, <<target[3], YU>>>>,
     old |-> IF z.run THEN z.xd ELSE <<>>]

\* the tween's initialiser: xd from angleScale.domain() to [x0, x1],
\* yd from radiusScale.domain() to [y0, 1]
StartedZoom(target, aDom, rDom, z) ==
    [sched |-> <<>>, run |-> TRUE, k |-> 0,
     xd |-> <<aDom, <<target[1], target[2]>>>>,
     yd |-> <<rDom, <<target[3], YU>>>>,
     old |-> IF z.run THEN z.xd ELSE <<>>]

StartSlice(s) ==
    IF s.sched THEN [s EXCEPT !.sched = FALSE, !.exit = Frames] ELSE s

StartTransition ==
    /\ zoom.sched # <<>> \/ \E i \in 1..Len(slices) : slices[i].sched
    /\ zoom' = IF zoom.sched # <<>>
               THEN StartedZoom(zoom.sched, angleDomain, radiusDomain, zoom)
               ELSE zoom
    /\ slices' = [i \in 1..Len(slices) |-> StartSlice(slices[i])]
    /\ calls' = <<>>
    /\ UNCHANGED <<propVars, initialised, layoutVars, scaleVars, tooltip>>

\* transition.remove(): at the end, unless the element has another
\* transition
Removed(s) == s.exit = 1 /\ ~s.sched

TickSlice(s) == IF s.exit > 0 THEN [s EXCEPT !.exit = @ - 1] ELSE s

TickSlices(dom) ==
    LET kept == SelectSeq(dom, LAMBDA s : ~Removed(s))
    IN  [i \in 1..Len(kept) |-> TickSlice(kept[i])]

Tick ==
    /\ zoom.run \/ \E i \in 1..Len(slices) : slices[i].exit > 0
    /\ IF zoom.run
       THEN /\ angleDomain' = Interpolate(zoom.xd, zoom.k + 1)
            /\ radiusDomain' = Interpolate(zoom.yd, zoom.k + 1)
            /\ zoom' = IF zoom.k + 1 = Frames
                       THEN [zoom EXCEPT !.run = FALSE, !.k = 0, !.xd = <<>>,
                                         !.yd = <<>>, !.old = <<>>]
                       ELSE [zoom EXCEPT !.k = @ + 1]
       ELSE UNCHANGED <<scaleVars, zoom>>
    /\ slices' = TickSlices(slices)
    /\ calls' = <<>>
    /\ UNCHANGED <<propVars, initialised, layoutVars, tooltip>>

(***************************************************************************)
(* Kapsule: mounting the component runs init and the first update; a       *)
(* prop's setter stores the value, runs the prop's onChange handler and,   *)
(* unless the prop says triggerUpdate: false, runs update.                 *)
(***************************************************************************)
Mount ==
    /\ ~initialised
    /\ initialised' = TRUE
    /\ angleDomain' = <<0, 10 * XU>>
    /\ radiusDomain' = <<0, YU>>
    /\ UNCHANGED <<propVars, layoutVars, tooltip>>
    /\ Update
    /\ calls' = <<>>

SetData(d) ==
    /\ data' = d
    /\ OnChangeParse(d, children, size, sort)
    /\ UNCHANGED <<children, size, sort, minSliceAngle, focusOnNode,
                   onNodeClick, options, initialised, scaleVars, tooltip>>
    /\ Update
    /\ calls' = <<>>

SetChildren(c) ==
    /\ children' = c
    /\ OnChangeParse(data, c, size, sort)
    /\ UNCHANGED <<data, size, sort, minSliceAngle, focusOnNode,
                   onNodeClick, options, initialised, scaleVars, tooltip>>
    /\ Update
    /\ calls' = <<>>

SetSize(z) ==
    /\ size' = z
    /\ OnChangeParse(data, children, z, sort)
    /\ UNCHANGED <<data, children, sort, minSliceAngle, focusOnNode,
                   onNodeClick, options, initialised, scaleVars, tooltip>>
    /\ Update
    /\ calls' = <<>>

SetSort(c) ==
    /\ sort' = c
    /\ OnChangeParse(data, children, size, c)
    /\ UNCHANGED <<data, children, size, minSliceAngle, focusOnNode,
                   onNodeClick, options, initialised, scaleVars, tooltip>>
    /\ Update
    /\ calls' = <<>>

SetMinSliceAngle(m) ==
    /\ minSliceAngle' = m
    /\ UNCHANGED <<data, children, size, sort, focusOnNode, onNodeClick,
                   options, initialised, layoutVars, scaleVars, tooltip>>
    /\ Update
    /\ calls' = <<>>

\* triggerUpdate: false
SetOnNodeClick(c) ==
    /\ onNodeClick' = c
    /\ calls' = <<>>
    /\ UNCHANGED <<data, children, size, sort, minSliceAngle, focusOnNode,
                   options, initialised, layoutVars, scaleVars, slices,
                   zoom, tooltip>>

\* width, height, label, color, showLabels, tooltipContent
SetOption(o, v) ==
    /\ options' = [options EXCEPT ![o] = v]
    /\ UNCHANGED <<data, children, size, sort, minSliceAngle, focusOnNode,
                   onNodeClick, initialised, layoutVars, scaleVars, tooltip>>
    /\ IF o \in NoTriggerUpdate THEN UNCHANGED <<slices, zoom>> ELSE Update
    /\ calls' = <<>>

(***************************************************************************)
(* focusOnNode's onChange: moveStackToFront moves the slice bound to the   *)
(* node's LayoutNode to the end of the canvas, then the slice bound to its *)
(* parent, and so on while such a slice exists.                            *)
(***************************************************************************)
RECURSIVE MoveStackToFront(_, _, _)
MoveStackToFront(dom, gen, path) ==
    IF path = <<>> THEN dom
    ELSE LET hit == {i \in 1..Len(dom) : /\ dom[i].d.gen = gen
                                         /\ dom[i].d.id = path[Len(path)]}
         IN  IF hit = {} THEN dom
             ELSE LET i == CHOOSE j \in hit : TRUE
                  IN  MoveStackToFront(
                          SubSeq(dom, 1, i - 1) \o SubSeq(dom, i + 1, Len(dom))
                              \o <<dom[i]>>,
                          gen, SubSeq(path, 1, Len(path) - 1))

OnChangeFocus(n, dom) ==
    IF n # Null /\ initialised
    THEN MoveStackToFront(dom, dataNode[n].gen, dataNode[n].path)
    ELSE dom

\* the setter of focusOnNode, as a function of the state it changes (a
\* pointer event's listeners may call it more than once)
FocusOnNode(st, n) ==
    [focus  |-> n,
     slices |-> UpdateSlices(initialised, layoutData, dataNode, n,
                             minSliceAngle, OnChangeFocus(n, st.slices)),
     zoom   |-> UpdateZoom(initialised, layoutData, dataNode, n, st.zoom),
     calls  |-> Append(st.calls, <<"focusOnNode", n>>)]

\* a callback supplied by the user
UserCallback(st, n) == [st EXCEPT !.calls = Append(@, <<"onNodeClick", n>>)]

Before == [focus |-> focusOnNode, slices |-> slices, zoom |-> zoom,
           calls |-> <<>>]

Apply(st) ==
    /\ focusOnNode' = st.focus
    /\ slices' = st.slices
    /\ zoom' = st.zoom
    /\ calls' = st.calls
    /\ UNCHANGED <<data, children, size, sort, minSliceAngle, onNodeClick,
                   options, initialised, layoutVars, scaleVars, tooltip>>

SetFocusOnNode(n) ==
    Apply([FocusOnNode(Before, n) EXCEPT !.calls = <<>>])

(***************************************************************************)
(* Pointer events.                                                         *)
(***************************************************************************)
\* the svg element's click listener: this.focusOnNode(null)
CanvasClickHandler(st) == FocusOnNode(st, Null)

\* for comparison: a listener that lets the event bubble
SliceClickBubbles == FALSE

\* the slice's click listener: d3Event.stopPropagation() ...
SliceClickStops == TRUE

\* ... (state.onNodeClick || this.focusOnNode)(d.data)
SliceClickHandler(st, d) ==
    IF onNodeClick # Null THEN UserCallback(st, d.data)
    ELSE FocusOnNode(st, d.data)

\* a click on the i-th slice: its listener, then (the event bubbles) the
\* svg element's listener unless the event was stopped
SliceClick(i) ==
    Apply(IF SliceClickStops
          THEN SliceClickHandler(Before, slices[i].d)
          ELSE CanvasClickHandler(SliceClickHandler(Before, slices[i].d)))

\* a click on the svg element outside every slice
CanvasClick ==
    /\ initialised
    /\ Apply(CanvasClickHandler(Before))

\* getNodeStack(d).map(d => nameOf(d.data)): the labels from the root to d
MouseOver(i) ==
    /\ tooltip' = [shown |-> TRUE, title |-> slices[i].d.names]
    /\ calls' = <<>>
    /\ UNCHANGED <<propVars, initialised, layoutVars, scaleVars, slices,
                   zoom>>

MouseOut ==
    /\ slices # <<>>
    /\ tooltip' = [tooltip EXCEPT !.shown = FALSE]
    /\ calls' = <<>>
    /\ UNCHANGED <<propVars, initialised, layoutVars, scaleVars, slices,
                   zoom>>

(***************************************************************************)
(* The next-state relation: the calls the page makes on the component      *)
(* (counted, to bound the run) and the animation frames in between.        *)
(***************************************************************************)
\* history: whether the step ran update on a layout (u: the call asks for
\* an update), and the node it set focusOnNode to ("none": it set none)
Did(u, f) ==
    /\ updated' = (u /\ initialised' /\ layoutData' # <<>>)
    /\ lastFocus' = f

\* an animation frame
Frame ==
    /\ updated' = FALSE
    /\ UNCHANGED <<callsLeft, lastFocus>>

\* a call made on the component: one of the calls of the run
Called ==
    /\ callsLeft > 0
    /\ callsLeft' = callsLeft - 1

Next ==
    \/ Frame /\ StartTransition
    \/ Frame /\ Tick
    \/ Called /\ Mount /\ Did(TRUE, "none")
    \/ \E d \in Trees \cup {Null} :
          Called /\ SetData(d) /\ Did(TRUE, "none")
    \/ \E c \in ChildrenAccessors :
          Called /\ SetChildren(c) /\ Did(TRUE, "none")
    \/ \E z \in SizeAccessors :
          Called /\ SetSize(z) /\ Did(TRUE, "none")
    \/ \E c \in Sorts :
          Called /\ SetSort(c) /\ Did(TRUE, "none")
    \/ \E m \in MinSliceAngles :
          Called /\ SetMinSliceAngle(m) /\ Did(TRUE, "none")
    \/ \E c \in ClickCallbacks :
          Called /\ SetOnNodeClick(c) /\ Did(FALSE, "none")
    \/ \E o \in RenderOptions : \E v \in OptionValues(o) :
          Called /\ SetOption(o, v) /\ Did(o \notin NoTriggerUpdate, "none")
    \/ \E n \in FocusTargets \cup {Null} :
          Called /\ SetFocusOnNode(n) /\ Did(TRUE, n)
    \/ \E i \in 1..Len(slices) :
          Called /\ SliceClick(i) /\ Did(onNodeClick = Null, "none")
    \/ Called /\ CanvasClick /\ Did(TRUE, "none")
    \/ \E i \in 1..Len(slices) :
          Called /\ MouseOver(i) /\ Did(FALSE, "none")
    \/ Called /\ MouseOut /\ Did(FALSE, "none")

Spec == Init /\ [][Next]_vars

\* the same component in runs of at most MaxShortCalls calls
ShortInit ==
    /\ Constructed
    /\ callsLeft = MaxShortCalls

ShortSpec == ShortInit /\ [][Next]_vars

(***************************************************************************)
(* What the properties below speak about.                                  *)
(***************************************************************************)
\* the focus window the last update used
FocusD == FocusWindow(focusOnNode, dataNode)
LayoutNodes == {layoutData[i] : i \in 1..Len(layoutData)}
\* d overlaps the window f angularly
Overlaps(d, f) == d.x1 >= f.x0 /\ d.x0 <= f.x1
\* (d.x1 - d.x0) / (f.x1 - f.x0) > m/10 / 360, as JavaScript computes it
RatioAbove(d, f, m) ==
    IF f.x1 = f.x0 THEN d.x1 > d.x0
    ELSE (d.x1 - d.x0) * 3600 > m * (f.x1 - f.x0)
\* a slice that is fading out, or is about to
Exiting(s) == s.sched \/ s.exit > 0
\* the nodes that have a slice that stays
Rendered == {slices[i].d : i \in {j \in 1..Len(slices) : ~Exiting(slices[j])}}
\* the nodes the last update passed to the data join
ShownNodes ==
    LET shown == Shown(layoutData, FocusD, minSliceAngle)
    IN  {shown[i] : i \in 1..Len(shown)}
\* the join bound an element to d; the join left no element for d's key
Joined(d) == \E i \in 1..Len(slices) : slices[i].d = d
Dropped(d) == \A i \in 1..Len(slices) :
                  slices[i].d.id = d.id => slices[i].sched
\* the domains the scales have once the pending transitions are over
FinalDomains ==
    IF zoom.sched # <<>>
    THEN <<<<zoom.sched[1], zoom.sched[2]>>, <<zoom.sched[3], YU>>>>
    ELSE IF zoom.run THEN <<zoom.xd[2], zoom.yd[2]>>
    ELSE <<angleDomain, radiusDomain>>
\* the domains that show the window f
WindowDomains(f) == <<<<f.x0, f.x1>>, <<f.y0, YU>>>>
\* the focused node is a node of the current layout
FocusInLayout ==
    /\ focusOnNode # Null
    /\ \E d \in LayoutNodes : d.data = focusOnNode

(***************************************************************************)
(* The properties checked.                                                 *)
(***************************************************************************)
\* C1: after any update, the set of rendered slices equals the set of
\* layout nodes that overlap the focus window angularly and whose share of
\* the focus window's width exceeds minSliceAngle/360.
C1_RenderedIsFilter ==
    updated =>
        Rendered = {d \in LayoutNodes : /\ Overlaps(d, FocusD)
                                        /\ RatioAbove(d, FocusD, minSliceAngle)}

\* the layout the props of the next state ask for
Rebuilt ==
    IF data' = Null THEN <<>>
    ELSE BuildLayout(data', layoutCount + 1, children', size', sort')
\* the step sets data, children, size or sort
LayoutPropSet ==
    \/ \E d \in Trees \cup {Null} : SetData(d)
    \/ \E c \in ChildrenAccessors : SetChildren(c)
    \/ \E z \in SizeAccessors : SetSize(z)
    \/ \E c \in Sorts : SetSort(c)

\* C2: the layout is rebuilt in full from the props exactly when data,
\* children, size or sort is set; every other step leaves it as it is.
C2_RebuiltOnLayoutProps ==
    [][IF LayoutPropSet THEN layoutData' = Rebuilt
       ELSE UNCHANGED layoutVars]_vars

\* C3: while data is absent (also after it was set back to null) there is
\* no layout, and update renders no slices.
C3_NoDataNoLayout ==
    data = Null => layoutData = <<>> /\ slices = <<>>

\* C4: when the focused node is not part of the current layout, the render
\* uses the whole-tree focus window.
C4_StaleFocusFallsBack ==
    (updated /\ focusOnNode # Null /\ ~FocusInLayout) =>
        /\ FocusD = WholeTree
        /\ zoom.sched = <<0, XU, 0>>

\* the nodes that keep a slice once the pending transitions are over
FinalSlices == Rendered

\* C9: setting the focus twice in a row to the same node, with or without
\* animation frames in between, yields the same final state as setting it
\* once: the second call changes neither the focus nor the slices and the
\* domains the transitions end with.
C9_RefocusIdempotent ==
    [][(/\ callsLeft' # callsLeft
        /\ lastFocus \notin {"none", Null}
        /\ lastFocus' = lastFocus)
       => /\ focusOnNode' = focusOnNode
          /\ FinalSlices' = FinalSlices
          /\ FinalDomains' = FinalDomains]_vars

\* C5: a click on a slice invokes exactly one callee with the slice's node:
\* onNodeClick when one is set (the focus then stays as it is), otherwise
\* focusOnNode (the node becomes the focus); the click never reaches the
\* svg element's listener, which clears the focus.
C5_SliceClickCallsOne ==
    [][calls' # <<>> =>
          /\ Len(calls') = 1
          /\ \/ calls'[1] = <<"focusOnNode", Null>>
             \/ \E i \in 1..Len(slices) :
                   LET n == slices[i].d.data
                   IN  IF onNodeClick # Null
                       THEN /\ calls'[1] = <<"onNodeClick", n>>
                            /\ UNCHANGED <<focusOnNode, slices, zoom>>
                       ELSE /\ calls'[1] = <<"focusOnNode", n>>
                            /\ focusOnNode' = n]_vars

\* a click on a slice has called the user's callback and nothing else
C5_Witness ==
    /\ onNodeClick # Null
    /\ \E i \in 1..Len(slices) : calls = <<<<"onNodeClick", slices[i].d.data>>>>
    /\ focusOnNode = Null

\* C6: with the focus on a node n of the current layout, the zoom
\* transition the render starts interpolates the angular domain from its
\* current value to [n.x0, n.x1] and the radial domain from its current
\* value to [n.y0, 1], and leaves the scales with these domains.
C6_ZoomToFocus ==
    (initialised /\ FocusInLayout /\ zoom.sched = <<>>) =>
        LET n == dataNode[focusOnNode]
        IN  IF zoom.run
            THEN /\ zoom.xd[2] = <<n.x0, n.x1>>
                 /\ zoom.yd[2] = <<n.y0, YU>>
                 /\ zoom.k = 0 => /\ zoom.xd[1] = angleDomain
                                  /\ zoom.yd[1] = radiusDomain
                 /\ zoom.k > 0 => /\ angleDomain = Interpolate(zoom.xd, zoom.k)
                                  /\ radiusDomain = Interpolate(zoom.yd, zoom.k)
            ELSE /\ angleDomain = <<n.x0, n.x1>>
                 /\ radiusDomain = <<n.y0, YU>>

\* the zoom to a node below the root is over
C6_Witness ==
    /\ initialised /\ FocusInLayout
    /\ zoom.sched = <<>> /\ ~zoom.run
    /\ dataNode[focusOnNode].depth > 0
    /\ angleDomain = <<dataNode[focusOnNode].x0, dataNode[focusOnNode].x1>>
    /\ radiusDomain = <<dataNode[focusOnNode].y0, YU>>

C10_Supersede ==
    [][/\ (zoom.run /\ zoom.sched # <<>> /\ zoom'.sched = <<>>) =>
             /\ zoom'.run /\ zoom'.k = 0
             /\ zoom'.xd = <<angleDomain, <<zoom.sched[1], zoom.sched[2]>>>>
             /\ zoom'.yd = <<radiusDomain, <<zoom.sched[3], YU>>>>
             /\ zoom'.old = zoom.xd
             /\ UNCHANGED scaleVars
       /\ (zoom.run /\ scaleVars' # scaleVars) =>
             /\ angleDomain' = Interpolate(zoom.xd, zoom.k + 1)
             /\ radiusDomain' = Interpolate(zoom.yd, zoom.k + 1)
       /\ (initialised' /\ layoutData' # <<>> /\ ~zoom'.run
             /\ zoom'.sched = <<>>) =>
             <<angleDomain', radiusDomain'>> = WindowDomains(FocusD')]_vars

\* a transition that started in the middle of another one
C10_Witness ==
    /\ zoom.run /\ zoom.old # <<>>
    /\ zoom.xd[1] \notin {zoom.old[1], zoom.old[2]}
    /\ zoom.xd[2] # zoom.old[2]

=============================================================================
